---- MODULE Spec2Model ----
(***************************************************************************)
(* The agent loop (AIAgent.run over FakeGPT), the JSONL transcript store   *)
(* and the interactive chat loops of gemini_chat.py, ai_agent.py (the      *)
(* assistant section) and gemini_real_assistant.py.                        *)
(*                                                                         *)
(* A Python str is a sequence of characters; a character is a one-element  *)
(* string, a non-ASCII character is named by its code point ("U+2019").    *)
(***************************************************************************)
EXTENDS Integers, Sequences, FiniteSets, TLC

VARIABLES
    gpt_kind,     \* the object bound to AIAgent.gpt: "FakeGPT" or "Scripted"
    gpt_step,     \* FakeGPT.step
    agent_pc,     \* position of AIAgent.run: "idle", "loop", "returned", "raised"
    task,         \* the argument of the current AIAgent.run call
    step,         \* local `step` of AIAgent.run
    done,         \* local `done` of AIAgent.run
    trace,        \* model calls, tool calls and printed lines of the current run
    agent_result, \* what the last finished run handed to its caller
    returns,      \* history: (outcome, value) of every finished run
    runs          \* number of AIAgent.run calls so far

agent_vars == <<gpt_kind, gpt_step, agent_pc, task, step, done, trace,
                agent_result, returns, runs>>

VARIABLES
    variant,      \* the program that runs: "gemini_chat", "ai_agent", "gemini_real_assistant"
    file,         \* TRANSCRIPT_FILE: whether it exists, and its text
    clock,        \* readings of datetime.now taken so far
    loaded,       \* what the last load_history call of the store operations returned
    appended      \* history: (role, content) of the append_history calls since the file was absent

store_vars == <<variant, file, clock, loaded, appended>>

VARIABLES
    chat_pc,      \* position of interactive_chat
    chat,         \* the history of the ChatSession bound to `chat`
    user,         \* local `user`: the stripped input
    routed,       \* what handle_tools did for this input, and its tool_result
    full_text,    \* local `full_text`
    chunks,       \* chunks the streams of this session have yielded
    out,          \* what this pass of the loop has printed
    turns,        \* inputs that started a turn so far
    before        \* history: the transcript when the last input was read

chat_vars == <<chat_pc, chat, user, routed, full_text, chunks, out, turns, before>>

----------------------------------------------------------------------------
(* str methods *)

UpperCase == <<"A","B","C","D","E","F","G","H","I","J","K","L","M","N","O","P","Q","R","S","T","U","V","W","X","Y","Z">>
LowerCase == <<"a","b","c","d","e","f","g","h","i","j","k","l","m","n","o","p","q","r","s","t","u","v","w","x","y","z">>
Whitespace == {" ", "\n", "\t", "\r"}

\* a local binding: Body applied to value, value being computed once
With(value, Body(_)) == CHOOSE y \in {Body(x) : x \in {value}} : TRUE

\* one character of str.lower()
char_lower(c) ==
    IF \E i \in DOMAIN UpperCase : UpperCase[i] = c
    THEN LowerCase[CHOOSE i \in DOMAIN UpperCase : UpperCase[i] = c]
    ELSE c

\* s.lower()
str_lower(s) == [i \in 1..Len(s) |-> char_lower(s[i])]

\* needle in s
str_in(needle, s) ==
    \E i \in 0..(Len(s) - Len(needle)) : SubSeq(s, i + 1, i + Len(needle)) = needle

\* s.strip()
str_strip(s) ==
    LET keep == {i \in 1..Len(s) : s[i] \notin Whitespace}
    IN  IF keep = {} THEN <<>>
        ELSE SubSeq(s, CHOOSE i \in keep : \A j \in keep : i <= j,
                       CHOOSE i \in keep : \A j \in keep : j <= i)

\* sep.join(parts)
RECURSIVE str_join(_, _)
str_join(sep, parts) ==
    IF parts = <<>> THEN <<>>
    ELSE IF Len(parts) = 1 THEN parts[1]
    ELSE parts[1] \o sep \o str_join(sep, Tail(parts))

\* repr() of a list of plain strings, as an f-string formats it
py_repr_list(l) ==
    <<"[">> \o str_join(<<","," ">>, [i \in 1..Len(l) |-> <<"'">> \o l[i] \o <<"'">>]) \o <<"]">>

----------------------------------------------------------------------------
(* json.dumps / json.loads on objects whose members are strings.  A dict   *)
(* is the sequence of its (key, value) pairs in insertion order.           *)

\* the escapes json.dumps (ensure_ascii) writes for the non-ASCII characters used
UnicodeEscapes ==
    << <<"U+2019", <<"\\","u","2","0","1","9">>>>,
       <<"U+2705", <<"\\","u","2","7","0","5">>>>,
       <<"U+1F4C5", <<"\\","u","d","8","3","d","\\","u","d","c","c","5">>>>,
       <<"U+1F4E7", <<"\\","u","d","8","3","d","\\","u","d","c","e","7">>>> >>

\* an encoder that writes every character as it is
json_escape_char_raw(c) == <<c>>

\* the text json.dumps writes for one character of a string
json_escape_char(c) ==
    IF c = "\"" THEN <<"\\","\"">>
    ELSE IF c = "\\" THEN <<"\\","\\">>
    ELSE IF c = "\n" THEN <<"\\","n">>
    ELSE IF c = "\t" THEN <<"\\","t">>
    ELSE IF c = "\r" THEN <<"\\","r">>
    ELSE IF \E k \in DOMAIN UnicodeEscapes : UnicodeEscapes[k][1] = c
    THEN UnicodeEscapes[CHOOSE k \in DOMAIN UnicodeEscapes : UnicodeEscapes[k][1] = c][2]
    ELSE <<c>>

\* the body of a string literal: every character replaced by its escape
RECURSIVE json_escape(_)
json_escape(s) ==
    IF Len(s) = 0 THEN <<>>
    ELSE IF Len(s) = 1 THEN json_escape_char(s[1])
    ELSE LET h == Len(s) \div 2
         IN  json_escape(SubSeq(s, 1, h)) \o json_escape(SubSeq(s, h + 1, Len(s)))

json_quote(s) == <<"\"">> \o json_escape(s) \o <<"\"">>

\* json.dumps(d)
json_dumps(d) ==
    <<"{">> \o str_join(<<","," ">>, [i \in 1..Len(d) |->
                              json_quote(d[i][1]) \o <<":"," ">> \o json_quote(d[i][2])])
         \o <<"}">>

JsonError == [ok |-> FALSE, val |-> <<>>, next |-> 0]

RECURSIVE json_skip_ws(_, _)
json_skip_ws(s, i) ==
    IF i <= Len(s) /\ s[i] \in Whitespace THEN json_skip_ws(s, i + 1) ELSE i

\* the number of consecutive backslashes that end right before position k,
\* counted back no further than position i
backslashes_before(s, i, k) ==
    CHOOSE r \in 0..(k - i) :
        /\ r = k - i \/ s[k - 1 - r] # "\\"
        /\ \A r2 \in 0..(r - 1) : s[k - 1 - r2] = "\\"

\* position k holds a character that an even number of backslashes precedes
unescaped(s, i, k) == backslashes_before(s, i, k) % 2 = 0

\* the escape that starts with the backslash at position k of a literal that
\* ends before position q: its length and its character, length 0 when invalid
json_escape_at(s, k, q) ==
    IF k + 1 >= q THEN [len |-> 0, char |-> ""]
    ELSE IF s[k + 1] \in {"\"", "\\", "/"} THEN [len |-> 2, char |-> s[k + 1]]
    ELSE IF s[k + 1] = "n" THEN [len |-> 2, char |-> "\n"]
    ELSE IF s[k + 1] = "t" THEN [len |-> 2, char |-> "\t"]
    ELSE IF s[k + 1] = "r" THEN [len |-> 2, char |-> "\r"]
    ELSE LET hit == {e \in DOMAIN UnicodeEscapes :
                        LET x == UnicodeEscapes[e][2]
                        IN  k + Len(x) <= q /\ SubSeq(s, k, k + Len(x) - 1) = x}
         IN  IF hit = {} THEN [len |-> 0, char |-> ""]
             ELSE LET e == CHOOSE e \in hit : \A f \in hit :
                                Len(UnicodeEscapes[f][2]) <= Len(UnicodeEscapes[e][2])
                  IN  [len |-> Len(UnicodeEscapes[e][2]), char |-> UnicodeEscapes[e][1]]

\* position k closes the string literal that opens before position i
json_closes(s, i, k) == s[k] = "\"" /\ unescaped(s, i, k)

\* the position of the closing quote of that literal, 0 when it never closes
json_string_end(s, i) ==
    IF \E k \in i..Len(s) : json_closes(s, i, k)
    THEN CHOOSE k \in i..Len(s) :
             json_closes(s, i, k) /\ \A m \in i..(k - 1) : ~json_closes(s, i, m)
    ELSE 0

\* position m lies inside an escape that starts before it
json_covered(s, i, q, m) ==
    \E k \in (IF m - 11 > i THEN m - 11 ELSE i)..(m - 1) :
        /\ s[k] = "\\"
        /\ unescaped(s, i, k)
        /\ m - k < json_escape_at(s, k, q).len

\* the positions in i..q-1 where a character or an escape starts, in order
json_tokens(s, i, q) ==
    SelectSeq([j \in 1..(q - i) |-> i + j - 1], LAMBDA m : ~json_covered(s, i, q, m))

\* the token at position m is no legal content of a string literal
json_bad_token(s, q, m) ==
    \/ s[m] \in {"\n", "\t", "\r"}
    \/ s[m] = "\\" /\ json_escape_at(s, m, q).len = 0

json_decode_token(s, q, m) ==
    IF s[m] = "\\" THEN json_escape_at(s, m, q).char ELSE s[m]

\* the characters of a string literal from position i (after the opening quote)
json_scan_string(s, i) ==
    With(json_string_end(s, i), LAMBDA q :
        IF q = 0 THEN JsonError
        ELSE With(json_tokens(s, i, q), LAMBDA tokens :
            IF \E j \in DOMAIN tokens : json_bad_token(s, q, tokens[j]) THEN JsonError
            ELSE [ok |-> TRUE,
                  val |-> [j \in DOMAIN tokens |-> json_decode_token(s, q, tokens[j])],
                  next |-> q + 1]))

json_parse_string(s, i) ==
    IF i <= Len(s) /\ s[i] = "\"" THEN json_scan_string(s, i + 1) ELSE JsonError

\* what follows a member's value at position e: "," and more members, or "}"
RECURSIVE json_parse_members(_, _, _)
json_after_member(s, e, d) ==
    IF e > Len(s) THEN JsonError
    ELSE IF s[e] = "," THEN json_parse_members(s, e + 1, d)
    ELSE IF s[e] = "}" THEN [ok |-> TRUE, val |-> d, next |-> e + 1]
    ELSE JsonError

\* the value of the member named key.val, ":" being expected at position c
json_parse_value(s, c, key, acc) ==
    IF c > Len(s) \/ s[c] # ":" THEN JsonError
    ELSE With(json_parse_string(s, json_skip_ws(s, c + 1)), LAMBDA v :
        IF ~v.ok THEN JsonError
        ELSE json_after_member(s, json_skip_ws(s, v.next), Append(acc, <<key.val, v.val>>)))

\* the members of an object from position i (after "{" or ","), up to "}"
json_parse_members(s, i, acc) ==
    With(json_parse_string(s, json_skip_ws(s, i)), LAMBDA key :
        IF ~key.ok THEN JsonError
        ELSE json_parse_value(s, json_skip_ws(s, key.next), key, acc))

\* the object that opens at position b
json_parse_object(text, b) ==
    IF b > Len(text) \/ text[b] # "{" THEN JsonError
    ELSE With(json_skip_ws(text, b + 1), LAMBDA m :
        IF m <= Len(text) /\ text[m] = "}"
        THEN [ok |-> TRUE, val |-> <<>>, next |-> m + 1]
        ELSE json_parse_members(text, b + 1, <<>>))

\* json.loads(text): ok and the dict, or not ok (the call raises)
json_loads(text) ==
    With(json_parse_object(text, json_skip_ws(text, 1)), LAMBDA obj :
        IF ~obj.ok THEN JsonError
        ELSE IF json_skip_ws(text, obj.next) # Len(text) + 1 THEN JsonError
        ELSE [ok |-> TRUE, val |-> obj.val, next |-> 0])

\* key in d
dict_has(d, key) == \E i \in DOMAIN d : d[i][1] = key

\* d[key] (the last member of that name wins when a text repeats a key)
dict_get(d, key) ==
    d[CHOOSE i \in DOMAIN d : d[i][1] = key /\ \A j \in DOMAIN d : d[j][1] = key => j <= i][2]

\* d[key] = value
dict_set(d, key, value) ==
    IF dict_has(d, key)
    THEN [i \in DOMAIN d |-> IF d[i][1] = key THEN <<key, value>> ELSE d[i]]
    ELSE Append(d, <<key, value>>)

----------------------------------------------------------------------------
(* ai_agent.py: the fake tools, FakeGPT and AIAgent.run *)

MaxSteps == 5      \* the safety limit of the loop of AIAgent.run
MaxRuns == 2       \* bound: AIAgent.run calls in one behaviour

\* CalendarAPI.check_availability(person)
CalendarAPI_check_availability(person) ==
    IF person = <<"u","s","e","r">> THEN <<<<"W","e","d"," ","1","0","A","M">>, <<"T","h","u"," ","1","1","A","M">>>>
    ELSE IF person = <<"P","r","i","y","a">> THEN <<<<"T","h","u"," ","1","1","A","M">>, <<"F","r","i"," ","2","P","M">>>>
    ELSE <<>>

\* EmailAPI.draft_email(to, subject, body)
EmailAPI_draft_email(to, subject, body) ==
    <<"D","r","a","f","t","e","d"," ","e","m","a","i","l"," ","t","o"," ">> \o to \o <<" ","w","i","t","h"," ","s","u","b","j","e","c","t"," ","'">> \o subject \o <<"'",":"," ">> \o body

\* a step record as the dict json.dumps receives
StepRecord(thought, plan, action, observation, final_answer) ==
    << <<<<"t","h","o","u","g","h","t">>, thought>>, <<<<"p","l","a","n">>, plan>>, <<<<"a","c","t","i","o","n">>, action>>,
       <<<<"o","b","s","e","r","v","a","t","i","o","n">>, observation>>, <<<<"f","i","n","a","l","_","a","n","s","w","e","r">>, final_answer>> >>

\* the four scripted responses of FakeGPT.run
FakeGPT_responses ==
    << json_dumps(StepRecord(
           <<"I"," ","n","e","e","d"," ","t","o"," ","s","t","a","r","t"," ","b","y"," ","c","h","e","c","k","i","n","g"," ","c","a","l","e","n","d","a","r","s",".">>,
           <<"S","t","e","p"," ","1",":"," ","C","a","l","l"," ","C","a","l","e","n","d","a","r","A","P","I"," ","f","o","r"," ","u","s","e","r"," ","a","n","d"," ","P","r","i","y","a",".">>,
           <<"C","a","l","e","n","d","a","r","A","P","I",".","c","h","e","c","k","_","a","v","a","i","l","a","b","i","l","i","t","y">>,
           <<"N","o","n","e"," ","y","e","t",".">>,
           <<"C","h","e","c","k","i","n","g"," ","a","v","a","i","l","a","b","i","l","i","t","y",".",".",".">>)),
       json_dumps(StepRecord(
           <<"N","o","w"," ","I"," ","h","a","v","e"," ","b","o","t","h"," ","c","a","l","e","n","d","a","r","s","."," ","I"," ","s","h","o","u","l","d"," ","f","i","n","d"," ","a"," ","c","o","m","m","o","n"," ","s","l","o","t",".">>,
           <<"C","o","m","p","a","r","e"," ","a","v","a","i","l","a","b","i","l","i","t","y"," ","o","f"," ","u","s","e","r"," ","a","n","d"," ","P","r","i","y","a",".">>,
           <<"n","o","n","e">>,
           <<"U","s","e","r",":"," ","W","e","d"," ","1","0","A","M",","," ","T","h","u"," ","1","1","A","M"," ","|"," ","P","r","i","y","a",":"," ","T","h","u"," ","1","1","A","M",","," ","F","r","i"," ","2","P","M">>,
           <<"B","o","t","h"," ","a","r","e"," ","f","r","e","e"," ","o","n"," ","T","h","u"," ","1","1","A","M","."," ","S","h","o","u","l","d"," ","I"," ","d","r","a","f","t"," ","a","n"," ","e","m","a","i","l","?">>)),
       json_dumps(StepRecord(
           <<"I"," ","s","h","o","u","l","d"," ","d","r","a","f","t"," ","a"," ","c","o","n","f","i","r","m","a","t","i","o","n"," ","e","m","a","i","l"," ","t","o"," ","P","r","i","y","a",".">>,
           <<"U","s","e"," ","E","m","a","i","l","A","P","I"," ","t","o"," ","c","r","e","a","t","e"," ","a"," ","d","r","a","f","t",".">>,
           <<"E","m","a","i","l","A","P","I",".","d","r","a","f","t","_","e","m","a","i","l">>,
           <<"N","o","n","e"," ","y","e","t",".">>,
           <<"D","r","a","f","t","i","n","g"," ","t","h","e"," ","e","m","a","i","l"," ","n","o","w",".">>)),
       json_dumps(StepRecord(
           <<"T","h","e"," ","t","a","s","k"," ","i","s"," ","c","o","m","p","l","e","t","e",".">>,
           <<"N","o"," ","f","u","r","t","h","e","r"," ","a","c","t","i","o","n"," ","n","e","e","d","e","d",".">>,
           <<"n","o","n","e">>,
           <<"A","l","l"," ","d","o","n","e",".">>,
           <<"E","m","a","i","l"," ","d","r","a","f","t","e","d"," ","s","u","c","c","e","s","s","f","u","l","l","y"," ","a","n","d"," ","m","e","e","t","i","n","g"," ","s","c","h","e","d","u","l","e","d",".">>)) >>

\* FakeGPT.run(task), n being self.step after its increment
FakeGPT_run(n) ==
    IF n = 1 THEN FakeGPT_responses[1]
    ELSE IF n = 2 THEN FakeGPT_responses[2]
    ELSE IF n = 3 THEN FakeGPT_responses[3]
    ELSE FakeGPT_responses[4]

\* what another object bound to AIAgent.gpt may answer: step records, a record
\* without its observation, and a text that is no JSON
ScriptedResponses ==
    { json_dumps(StepRecord(<<"t">>, <<"p">>, <<"C","a","l","e","n","d","a","r","A","P","I",".","c","h","e","c","k","_","a","v","a","i","l","a","b","i","l","i","t","y">>, <<"N","o","n","e"," ","y","e","t",".">>, <<"C","h","e","c","k","i","n","g",".",".",".">>)),
      json_dumps(StepRecord(<<"t">>, <<"p">>, <<"E","m","a","i","l","A","P","I",".","d","r","a","f","t","_","e","m","a","i","l">>, <<"N","o","n","e"," ","y","e","t",".">>, <<"U","n","s","u","c","c","e","s","s","f","u","l","l","y"," ","t","r","i","e","d",".">>)),
      json_dumps(StepRecord(<<"t">>, <<"p">>, <<"n","o","n","e">>, <<"s","e","e","n">>, <<"S","t","i","l","l"," ","w","o","r","k","i","n","g",".">>)),
      json_dumps(StepRecord(<<"t">>, <<"p">>, <<"n","o","n","e">>, <<"s","e","e","n">>, <<"D","o","n","e"," ","S","U","C","C","E","S","S","F","U","L","L","Y">>)),
      json_dumps(StepRecord(<<"t">>, <<"p">>, <<"S","l","a","c","k","A","P","I",".","p","o","s","t">>, <<"N","o","n","e"," ","y","e","t",".">>, <<"P","o","s","t","i","n","g"," ","s","u","c","c","e","s","s"," ","f","u","l","l","y",".">>)),
      json_dumps(<< <<<<"t","h","o","u","g","h","t">>, <<"t">>>>, <<<<"p","l","a","n">>, <<"p">>>>, <<<<"a","c","t","i","o","n">>, <<"n","o","n","e">>>>,
                    <<<<"f","i","n","a","l","_","a","n","s","w","e","r">>, <<"S","t","i","l","l"," ","w","o","r","k","i","n","g",".">>>> >>),
      <<"n","o","t"," ","j","s","o","n">> }

\* the responses the object bound to AIAgent.gpt can give
Responses == ScriptedResponses \cup { FakeGPT_run(n) : n \in 1..4 }

\* json.loads(response), tabulated over Responses
parsed_response == [r \in Responses |-> json_loads(r)]

Tasks ==
    { <<"S","c","h","e","d","u","l","e"," ","a"," ","m","e","e","t","i","n","g"," ","w","i","t","h"," ","P","r","i","y","a"," ","n","e","x","t"," ","w","e","e","k"," ","a","n","d"," ","s","e","n","d"," ","h","e","r"," ","a"," ","c","o","n","f","i","r","m","a","t","i","o","n"," ","e","m","a","i","l",".">>,
      <<"B","o","o","k"," ","a"," ","r","o","o","m",".">> }

\* a loop that admits a step after the fifth
loop_condition_inclusive(d, n) == ~d /\ n <= MaxSteps

\* the condition of the while loop
loop_condition(d, n) == ~d /\ n < MaxSteps

\* a test for the keyword that tells letter cases apart
is_complete_same_case(final_answer) == str_in(<<"s","u","c","c","e","s","s","f","u","l","l","y">>, final_answer)

\* "successfully" in final_answer.lower()
is_complete(final_answer) == str_in(<<"s","u","c","c","e","s","s","f","u","l","l","y">>, str_lower(final_answer))

Event(n, kind, name, args, text) ==
    [step |-> n, kind |-> kind, name |-> name, args |-> args, text |-> text]

\* step 3 of the loop body: the tool calls made for the declared action
tool_calls(action, n) ==
    IF action = <<"C","a","l","e","n","d","a","r","A","P","I",".","c","h","e","c","k","_","a","v","a","i","l","a","b","i","l","i","t","y">>
    THEN << Event(n, "tool", "CalendarAPI.check_availability", <<<<"u","s","e","r">>>>,
                  py_repr_list(CalendarAPI_check_availability(<<"u","s","e","r">>))),
            Event(n, "tool", "CalendarAPI.check_availability", <<<<"P","r","i","y","a">>>>,
                  py_repr_list(CalendarAPI_check_availability(<<"P","r","i","y","a">>))) >>
    ELSE IF action = <<"E","m","a","i","l","A","P","I",".","d","r","a","f","t","_","e","m","a","i","l">>
    THEN << Event(n, "tool", "EmailAPI.draft_email",
                  <<<<"P","r","i","y","a">>, <<"M","e","e","t","i","n","g"," ","C","o","n","f","i","r","m","a","t","i","o","n">>,
                    <<"H","i"," ","P","r","i","y","a",","," ","c","o","n","f","i","r","m","i","n","g"," ","o","u","r"," ","m","e","e","t","i","n","g"," ","o","n"," ","T","h","u"," ","1","1","A","M",".">>>>,
                  EmailAPI_draft_email(<<"P","r","i","y","a">>, <<"M","e","e","t","i","n","g"," ","C","o","n","f","i","r","m","a","t","i","o","n">>,
                      <<"H","i"," ","P","r","i","y","a",","," ","c","o","n","f","i","r","m","i","n","g"," ","o","u","r"," ","m","e","e","t","i","n","g"," ","o","n"," ","T","h","u"," ","1","1","A","M",".">>)) >>
    ELSE <<>>

\* a step 3 that leaves the supplied observation in place
execute_tool_keeps(parsed) == parsed

\* step 3 of the loop body: parsed after the tool results are stored in it
execute_tool(parsed) ==
    LET action == dict_get(parsed, <<"a","c","t","i","o","n">>)
    IN  IF action = <<"C","a","l","e","n","d","a","r","A","P","I",".","c","h","e","c","k","_","a","v","a","i","l","a","b","i","l","i","t","y">>
        THEN dict_set(parsed, <<"o","b","s","e","r","v","a","t","i","o","n">>,
                 <<"U","s","e","r",":"," ">> \o py_repr_list(CalendarAPI_check_availability(<<"u","s","e","r">>))
                 \o <<" ","|"," ","P","r","i","y","a",":"," ">> \o py_repr_list(CalendarAPI_check_availability(<<"P","r","i","y","a">>)))
        ELSE IF action = <<"E","m","a","i","l","A","P","I",".","d","r","a","f","t","_","e","m","a","i","l">>
        THEN dict_set(parsed, <<"o","b","s","e","r","v","a","t","i","o","n">>,
                 EmailAPI_draft_email(<<"P","r","i","y","a">>, <<"M","e","e","t","i","n","g"," ","C","o","n","f","i","r","m","a","t","i","o","n">>,
                     <<"H","i"," ","P","r","i","y","a",","," ","c","o","n","f","i","r","m","i","n","g"," ","o","u","r"," ","m","e","e","t","i","n","g"," ","o","n"," ","T","h","u"," ","1","1","A","M",".">>))
        ELSE parsed

\* lines 83-108 of the loop body on the parsed dict d, after the events p1
report(d, p1, n) ==
    LET p2 == Append(p1, Event(n, "print", "Thought", <<>>, dict_get(d, <<"t","h","o","u","g","h","t">>)))
        p3 == Append(p2, Event(n, "print", "Plan", <<>>, dict_get(d, <<"p","l","a","n">>)))
        p4 == Append(p3, Event(n, "print", "Action", <<>>, dict_get(d, <<"a","c","t","i","o","n">>)))
              \o tool_calls(dict_get(d, <<"a","c","t","i","o","n">>), n)
        raise(p) == [events |-> p, done |-> FALSE, raised |-> TRUE]
    IN  IF ~dict_has(d, <<"t","h","o","u","g","h","t">>) THEN raise(p1)
        ELSE IF ~dict_has(d, <<"p","l","a","n">>) THEN raise(p2)
        ELSE IF ~dict_has(d, <<"a","c","t","i","o","n">>) THEN raise(p3)
        ELSE With(execute_tool(d), LAMBDA d2 :
            IF ~dict_has(d2, <<"o","b","s","e","r","v","a","t","i","o","n">>) THEN raise(p4)
            ELSE With(Append(p4, Event(n, "print", "Observation", <<>>,
                                       dict_get(d2, <<"o","b","s","e","r","v","a","t","i","o","n">>))), LAMBDA p5 :
                IF ~dict_has(d2, <<"f","i","n","a","l","_","a","n","s","w","e","r">>) THEN raise(p5)
                ELSE [events |-> Append(p5, Event(n, "print", "Final Answer", <<>>,
                                                  dict_get(d2, <<"f","i","n","a","l","_","a","n","s","w","e","r">>))),
                      done |-> is_complete(dict_get(d2, <<"f","i","n","a","l","_","a","n","s","w","e","r">>)),
                      raised |-> FALSE]))

\* one iteration of the loop body on the model's response: the events in program
\* order, the new value of done, and whether an exception left the loop
loop_body(response, t, n) ==
    With(<< Event(n, "print", "Step", <<>>, <<>>),
            Event(n, "model", "gpt.run", <<t>>, response) >>, LAMBDA p1 :
        With(parsed_response[response], LAMBDA parsed :
            IF ~parsed.ok THEN [events |-> p1, done |-> FALSE, raised |-> TRUE]
            ELSE report(parsed.val, p1, n)))

\* self.gpt.run(task): the answers the bound object can give at this call
gpt_run(kind, n) ==
    IF kind = "FakeGPT" THEN {FakeGPT_run(n + 1)} ELSE ScriptedResponses

\* the agent before its first run
AgentIdle ==
    /\ gpt_step = 0
    /\ agent_pc = "idle"
    /\ task = <<>>
    /\ step = 0
    /\ done = FALSE
    /\ trace = <<>>
    /\ agent_result = "none yet"
    /\ returns = {}
    /\ runs = 0

\* agent.run(task) is entered: lines 71-74
AgentCall ==
    /\ agent_pc \in {"idle", "returned", "raised"}
    /\ runs < MaxRuns
    /\ \E t \in Tasks :
        /\ task' = t
        /\ trace' = << Event(0, "print", "User task", <<>>, t) >>
    /\ step' = 0
    /\ done' = FALSE
    /\ agent_pc' = "loop"
    /\ runs' = runs + 1
    /\ UNCHANGED <<gpt_kind, gpt_step, agent_result, returns, store_vars, chat_vars>>

\* an iteration that adds what the step printed last to the task of later calls
AgentStep_extends_task ==
    /\ agent_pc = "loop"
    /\ loop_condition(done, step)
    /\ \E response \in gpt_run(gpt_kind, gpt_step) :
        \E r \in {loop_body(response, task, step + 1)} :
            /\ trace' = trace \o r.events
            /\ done' = r.done
            /\ agent_pc' = IF r.raised THEN "raised" ELSE "loop"
            /\ agent_result' = IF r.raised THEN "exception" ELSE agent_result
            /\ task' = task \o r.events[Len(r.events)].text
    /\ step' = step + 1
    /\ gpt_step' = IF gpt_kind = "FakeGPT" THEN gpt_step + 1 ELSE gpt_step
    /\ UNCHANGED <<gpt_kind, returns, runs, store_vars, chat_vars>>

\* one iteration of the while loop: lines 75-108
AgentStep ==
    /\ agent_pc = "loop"
    /\ loop_condition(done, step)
    /\ \E response \in gpt_run(gpt_kind, gpt_step) :
        \E r \in {loop_body(response, task, step + 1)} :
            /\ trace' = trace \o r.events
            /\ done' = r.done
            /\ agent_pc' = IF r.raised THEN "raised" ELSE "loop"
            /\ agent_result' = IF r.raised THEN "exception" ELSE agent_result
    /\ step' = step + 1
    /\ gpt_step' = IF gpt_kind = "FakeGPT" THEN gpt_step + 1 ELSE gpt_step
    /\ UNCHANGED <<gpt_kind, task, returns, runs, store_vars, chat_vars>>

\* the loop condition is false: run returns (None) to its caller
AgentReturn ==
    /\ agent_pc = "loop"
    /\ ~loop_condition(done, step)
    /\ agent_pc' = "returned"
    /\ agent_result' = "None"
    /\ returns' = returns \cup
           {[outcome |-> IF done THEN "completed" ELSE "ceiling reached", value |-> "None"]}
    /\ UNCHANGED <<gpt_kind, gpt_step, task, step, done, trace, runs, store_vars, chat_vars>>

----------------------------------------------------------------------------
(* The JSONL transcript: load_history, append_history, reset_history of     *)
(* gemini_chat.py, ai_agent.py and gemini_real_assistant.py.  The file is   *)
(* absent, or holds a text.                                                *)

MaxAppends == 3    \* bound: append_history calls of the store operations

Variants == {"gemini_chat", "ai_agent", "gemini_real_assistant"}

NoFile == [exists |-> FALSE, text |-> <<>>]

ClockTicks == 4    \* bound: distinct readings of the clock before it repeats

\* datetime.now(timezone.utc).isoformat() at the k-th reading of the clock
Digits == <<"0","1","2","3","4","5","6","7","8","9">>
isoformat_now(k) ==
    <<"2","0","2","5","-","0","9","-","0","1","T","1","0",":","0","0",":">> \o <<Digits[((k \div 10) % 10) + 1], Digits[(k % 10) + 1]>>
                         \o <<".","0","0","0","0","0","0","+","0","0",":","0","0">>

\* `for line in f`: the text cut after every newline
file_lines(text) ==
    With(SelectSeq([p \in 1..Len(text) |-> p], LAMBDA p : text[p] = "\n"), LAMBDA nl :
        [j \in 1..Len(nl) |-> SubSeq(text, IF j = 1 THEN 1 ELSE nl[j - 1] + 1, nl[j])]
        \o (IF Len(nl) = 0
            THEN (IF Len(text) = 0 THEN <<>> ELSE <<text>>)
            ELSE IF nl[Len(nl)] < Len(text)
                 THEN <<SubSeq(text, nl[Len(nl)] + 1, Len(text))>>
                 ELSE <<>>))

\* a writer that puts the new record before the older ones
append_history_front(f, role, content, ts) ==
    [exists |-> TRUE,
     text |-> json_dumps(<< <<<<"t","s">>, ts>>, <<<<"r","o","l","e">>, role>>,
                            <<<<"c","o","n","t","e","n","t">>, content>> >>) \o <<"\n">> \o f.text]

\* the file after append_history(role, content) at time ts
append_history(f, role, content, ts) ==
    [exists |-> TRUE,
     text |-> f.text \o json_dumps(<< <<<<"t","s">>, ts>>, <<<<"r","o","l","e">>, role>>,
                                     <<<<"c","o","n","t","e","n","t">>, content>> >>) \o <<"\n">>]

\* a reset that leaves the file in place
reset_history_keeps(f) == f

\* the file after reset_history()
reset_history(f) == NoFile

\* a line of the transcript cannot be turned into a history entry
bad_record(rec) ==
    ~rec.ok \/ ~dict_has(rec.val, <<"r","o","l","e">>) \/ ~dict_has(rec.val, <<"c","o","n","t","e","n","t">>)

history_entry(rec) ==
    [role |-> dict_get(rec.val, <<"r","o","l","e">>), parts |-> <<dict_get(rec.val, <<"c","o","n","t","e","n","t">>)>>]

\* gemini_chat.py keeps the entries of the roles Gemini knows; the others keep all
keeps_role(v, role) == v = "gemini_chat" => role \in {<<"u","s","e","r">>, <<"m","o","d","e","l">>}

\* load_history(): the history, or raised when a line does not parse
load_history(v, f) ==
    IF ~f.exists THEN [raised |-> FALSE, history |-> <<>>]
    ELSE With(file_lines(f.text), LAMBDA lines :
        With([j \in DOMAIN lines |-> json_loads(lines[j])], LAMBDA recs :
            IF \E j \in DOMAIN recs : bad_record(recs[j])
            THEN [raised |-> TRUE, history |-> <<>>]
            ELSE [raised |-> FALSE,
                  history |-> SelectSeq([j \in DOMAIN recs |-> history_entry(recs[j])],
                                        LAMBDA h : keeps_role(v, h.role))]))

\* the texts the store operations are tried with
StoreContents ==
    { <<"s","a","y"," ","\"","h","i","\"","\n"," ","C",":","\\","n"," ","U+2019">>, <<>> }

NotLoaded == [valid |-> FALSE, raised |-> FALSE, history |-> <<>>]

\* what was appended to the transcript the store operations find: nothing (no
\* file), or one record of a role the three programs never write themselves
StoreOrigins == { <<>>, << <<<<"s","y","s","t","e","m">>, <<"n","o","t","e">>>> >> }

\* the transcript that holds the records of origin
origin_file(origin) ==
    IF origin = <<>> THEN NoFile
    ELSE append_history(NoFile, origin[1][1], origin[1][2], isoformat_now(57))

\* no store operation has run yet
StoreIdle ==
    /\ clock = 0
    /\ loaded = NotLoaded
    /\ appended = <<>>

\* append_history(role, content)
StoreAppend ==
    /\ Len(appended) < MaxAppends
    /\ \E role \in {<<"u","s","e","r">>, <<"m","o","d","e","l">>}, content \in StoreContents :
        /\ file' = append_history(file, role, content, isoformat_now(clock))
        /\ appended' = Append(appended, <<role, content>>)
    /\ clock' = (clock + 1) % ClockTicks
    /\ loaded' = NotLoaded
    /\ UNCHANGED <<variant, agent_vars, chat_vars>>

\* a load that removes the file it has read
StoreLoad_unlinks ==
    /\ \E r \in {load_history(variant, file)} :
        loaded' = [valid |-> TRUE, raised |-> r.raised, history |-> r.history]
    /\ file' = NoFile
    /\ UNCHANGED <<variant, appended, clock, agent_vars, chat_vars>>

\* load_history()
StoreLoad ==
    /\ \E r \in {load_history(variant, file)} :
        loaded' = [valid |-> TRUE, raised |-> r.raised, history |-> r.history]
    /\ UNCHANGED <<variant, file, appended, clock, agent_vars, chat_vars>>

\* reset_history()
StoreReset ==
    /\ file' = reset_history(file)
    /\ appended' = <<>>
    /\ loaded' = NotLoaded
    /\ UNCHANGED <<variant, clock, agent_vars, chat_vars>>

----------------------------------------------------------------------------
(* The tools and handle_tools of ai_agent.py (fake tools) and of           *)
(* gemini_real_assistant.py (Google Calendar and Gmail).  A tool call is    *)
(* logged with its name, its arguments and whether it raised.              *)

ToolCall(name, args, raised) == [name |-> name, args |-> args, raised |-> raised]

\* what handle_tools hands back: raised (an exception leaves it), or none
\* (it returns None), or the result text; with the tool calls it made
Routed(raised, none, result, calls) ==
    [raised |-> raised, none |-> none, result |-> result, calls |-> calls]

\* ai_agent.py check_calendar(user)
check_calendar(who) ==
    IF str_lower(who) = <<"s","h","i","v","a","m">> THEN <<<<"W","e","d"," ","1","0","A","M">>, <<"T","h","u"," ","1","1","A","M">>>>
    ELSE IF str_lower(who) = <<"p","r","i","y","a">> THEN <<<<"T","h","u"," ","1","1","A","M">>, <<"F","r","i"," ","2","P","M">>>>
    ELSE <<<<"N","o"," ","a","v","a","i","l","a","b","i","l","i","t","y"," ","f","o","u","n","d",".">>>>

\* ai_agent.py send_email(to, subject, body)
send_email(to, subject, body) ==
    <<"E","m","a","i","l"," ","s","e","n","t"," ","t","o"," ">> \o to \o <<" ","w","i","t","h"," ","s","u","b","j","e","c","t"," ","'">> \o subject \o <<"'"," ","a","n","d"," ","b","o","d","y"," ","'">>
        \o body \o <<"'">>

\* ai_agent.py handle_tools(user_input)
handle_tools_fake(user_input) ==
    With(str_lower(user_input), LAMBDA text :
        IF str_in(<<"c","a","l","e","n","d","a","r">>, text)
        THEN IF str_in(<<"p","r","i","y","a">>, text)
             THEN Routed(FALSE, FALSE,
                         <<"P","r","i","y","a","U+2019","s"," ","a","v","a","i","l","a","b","i","l","i","t","y",":"," ">> \o py_repr_list(check_calendar(<<"p","r","i","y","a">>)),
                         <<ToolCall("check_calendar", <<<<"p","r","i","y","a">>>>, FALSE)>>)
             ELSE IF str_in(<<"s","h","i","v","a","m">>, text)
             THEN Routed(FALSE, FALSE,
                         <<"S","h","i","v","a","m","U+2019","s"," ","a","v","a","i","l","a","b","i","l","i","t","y",":"," ">> \o py_repr_list(check_calendar(<<"s","h","i","v","a","m">>)),
                         <<ToolCall("check_calendar", <<<<"s","h","i","v","a","m">>>>, FALSE)>>)
             ELSE Routed(FALSE, FALSE, <<"W","h","o","s","e"," ","c","a","l","e","n","d","a","r"," ","d","o"," ","y","o","u"," ","w","a","n","t"," ","t","o"," ","c","h","e","c","k","?">>, <<>>)
        ELSE IF str_in(<<"e","m","a","i","l">>, text)
        THEN With(IF str_in(<<"p","r","i","y","a">>, text) THEN <<"p","r","i","y","a","@","e","x","a","m","p","l","e",".","c","o","m">>
                  ELSE IF str_in(<<"s","h","i","v","a","m">>, text) THEN <<"r","a","i","s","h","i","v","a","m","3","1","3","@","g","m","a","i","l",".","c","o","m">>
                  ELSE <<"s","o","m","e","o","n","e","@","e","x","a","m","p","l","e",".","c","o","m">>, LAMBDA recipient :
                 Routed(FALSE, FALSE,
                        send_email(recipient, <<"M","e","e","t","i","n","g">>, <<"L","e","t","U+2019","s"," ","c","o","n","n","e","c","t"," ","a","t"," ","T","h","u"," ","1","1","A","M",".">>),
                        <<ToolCall("send_email",
                                   <<recipient, <<"M","e","e","t","i","n","g">>, <<"L","e","t","U+2019","s"," ","c","o","n","n","e","c","t"," ","a","t"," ","T","h","u"," ","1","1","A","M",".">>>>,
                                   FALSE)>>))
        ELSE Routed(FALSE, TRUE, <<>>, <<>>))

\* gemini_real_assistant.py check_calendar(): it raises (no credentials, no
\* network), finds no event, or lists the events found
CalendarOutcomes ==
    { [raised |-> TRUE, text |-> <<>>],
      [raised |-> FALSE, text |-> <<"N","o"," ","u","p","c","o","m","i","n","g"," ","e","v","e","n","t","s",".">>],
      [raised |-> FALSE, text |-> py_repr_list(<<<<"S","t","a","n","d","u","p"," ","a","t"," ","2","0","2","5","-","0","9","-","0","2","T","0","9",":","0","0",":","0","0","+","0","5",":","3","0">>>>)] }

\* a create_meeting that inserts the event and hands back its link
create_meeting_succeeds ==
    [raised |-> FALSE, link |-> <<"h","t","t","p","s",":","/","/","m","e","e","t",".","g","o","o","g","l","e",".","c","o","m","/","a","b","c">>, inserted |-> TRUE]

\* gemini_real_assistant.py create_meeting(): line 74 uses timedelta, a name the
\* module never imports, so the call raises before the event is inserted
create_meeting == [raised |-> TRUE, link |-> <<>>, inserted |-> FALSE]

\* gemini_real_assistant.py send_email(to, subject, body)
send_email_real(to, subject, body) ==
    <<"U+1F4E7"," ","R","e","a","l"," ","e","m","a","i","l"," ","s","e","n","t"," ","t","o"," ">> \o to \o <<" ","(","I","D",":"," ","1","8","c","2","f",")">>

\* gemini_real_assistant.py handle_tools(user_input), cal being what
\* check_calendar() does when it is called
handle_tools_real(user_input, cal) ==
    With(str_lower(user_input), LAMBDA text :
        IF str_in(<<"c","a","l","e","n","d","a","r">>, text)
        THEN IF cal.raised
             THEN Routed(TRUE, FALSE, <<>>, <<ToolCall("check_calendar", <<>>, TRUE)>>)
             ELSE Routed(FALSE, FALSE, <<"U+1F4C5"," ","U","p","c","o","m","i","n","g"," ","e","v","e","n","t","s",":"," ">> \o cal.text,
                         <<ToolCall("check_calendar", <<>>, FALSE)>>)
        ELSE IF str_in(<<"m","e","e","t","i","n","g">>, text) \/ str_in(<<"m","e","e","t"," ","l","i","n","k">>, text)
        THEN IF create_meeting.raised
             THEN Routed(TRUE, FALSE, <<>>, <<ToolCall("create_meeting", <<>>, TRUE)>>)
             ELSE Routed(FALSE, FALSE,
                         <<"U+2705"," ","M","e","e","t","i","n","g"," ","c","r","e","a","t","e","d"," ","w","i","t","h"," ","G","o","o","g","l","e"," ","M","e","e","t"," ","l","i","n","k",":"," ">> \o create_meeting.link,
                         <<ToolCall("create_meeting", <<>>, FALSE)>>)
        ELSE IF str_in(<<"e","m","a","i","l">>, text)
        THEN With(IF str_in(<<"s","h","i","v","a","m">>, text) THEN <<"r","a","i","s","h","i","v","a","m","3","1","3","@","g","m","a","i","l",".","c","o","m">>
                  ELSE <<"s","o","m","e","o","n","e","@","e","x","a","m","p","l","e",".","c","o","m">>, LAMBDA recipient :
                 IF create_meeting.raised
                 THEN Routed(TRUE, FALSE, <<>>, <<ToolCall("create_meeting", <<>>, TRUE)>>)
                 ELSE Routed(FALSE, FALSE,
                        send_email_real(recipient, <<"M","e","e","t","i","n","g"," ","L","i","n","k">>,
                            <<"H","e","r","e","U+2019","s"," ","y","o","u","r"," ","m","e","e","t","i","n","g"," ","l","i","n","k",":"," ">> \o create_meeting.link),
                        << ToolCall("create_meeting", <<>>, FALSE),
                           ToolCall("send_email",
                               <<recipient, <<"M","e","e","t","i","n","g"," ","L","i","n","k">>,
                                 <<"H","e","r","e","U+2019","s"," ","y","o","u","r"," ","m","e","e","t","i","n","g"," ","l","i","n","k",":"," ">> \o create_meeting.link>>,
                               FALSE) >>))
        ELSE Routed(FALSE, TRUE, <<>>, <<>>))

\* a router that matches nothing when the calendar service is failing
handle_tools_by_outcome(v, user_input, cal) ==
    IF cal.raised THEN Routed(FALSE, TRUE, <<>>, <<>>)
    ELSE IF v = "ai_agent" THEN handle_tools_fake(user_input)
    ELSE handle_tools_real(user_input, cal)

\* handle_tools of the running program
handle_tools(v, user_input, cal) ==
    IF v = "ai_agent" THEN handle_tools_fake(user_input)
    ELSE handle_tools_real(user_input, cal)

----------------------------------------------------------------------------
(* start_chat and interactive_chat of the three programs *)

MaxTurns == 2      \* bound: inputs of one session that are neither empty nor a command
MaxChunks == 2     \* bound: chunks the streams of one session yield in all

\* SYSTEM_PROMPT
SYSTEM_PROMPT(v) ==
    IF v = "gemini_chat"
    THEN <<"Y","o","u"," ","a","r","e"," ","a"," ","h","e","l","p","f","u","l",","," ","c","o","n","c","i","s","e"," ","a","s","s","i","s","t","a","n","t","."," ","A","l","w","a","y","s"," ","a","n","s","w","e","r"," ","c","l","e","a","r","l","y"," ","a","n","d"," ","a","s","k"," ","a"," ","b","r","i","e","f"," ","f","o","l","l","o","w","-","u","p"," ","q","u","e","s","t","i","o","n"," ","w","h","e","n"," ","u","s","e","f","u","l",".">>
    ELSE <<"Y","o","u"," ","a","r","e"," ","S","h","i","v","a","m","U+2019","s"," ","A","I"," ","a","s","s","i","s","t","a","n","t","."," ","Y","o","u"," ","c","a","n"," ","c","h","a","t"," ","n","a","t","u","r","a","l","l","y",","," ","b","u","t"," ","w","h","e","n"," ","u","s","e","f","u","l",","," ","c","a","l","l"," ","t","o","o","l","s"," ","l","i","k","e"," ","C","a","l","e","n","d","a","r"," ","a","n","d"," ","E","m","a","i","l","."," ","A","l","w","a","y","s"," ","e","x","p","l","a","i","n"," ","y","o","u","r"," ","r","e","a","s","o","n","i","n","g"," ","b","r","i","e","f","l","y"," ","b","e","f","o","r","e","/","a","f","t","e","r"," ","t","o","o","l"," ","u","s","e",".">>

\* the first entry of base_history
instruction_turn(v) ==
    [role |-> <<"u","s","e","r">>,
     parts |-> <<IF v = "gemini_chat" THEN <<"(","I","n","s","t","r","u","c","t","i","o","n",")"," ">> \o SYSTEM_PROMPT(v)
                 ELSE SYSTEM_PROMPT(v)>>]

\* start_chat(persist=True): the history of the new session, or raised
start_chat(v, f) ==
    With(load_history(v, f), LAMBDA h :
        [raised |-> h.raised,
         history |-> IF h.raised THEN <<>> ELSE <<instruction_turn(v)>> \o h.history])

\* the transcript a session may find: none, one left by an earlier session,
\* one whose last line was cut short
InitialFiles ==
    { NoFile,
      append_history(append_history(NoFile, <<"u","s","e","r">>, <<"h","e","l","l","o">>, isoformat_now(58)),
                     <<"m","o","d","e","l">>, <<"H","i">>, isoformat_now(59)),
      [exists |-> TRUE, text |-> <<"{","\"","t","s","\"",":"," ","\"","2","0","2","5","-","0","9","-","0","1","T","0","9",":","5","9",":","5","9",".","0","0","0","0","0","0","+","0","0",":","0","0","\"",","," ","\"","r","o">>] }

\* what input() may return before strip()
RawInputs(v) ==
    { <<" "," ">>, <<" ","/","E","x","i","t"," ">>, <<"/","R","E","S","E","T">>, <<"h","e","l","l","o">> }
    \cup (IF v = "ai_agent"
          THEN { <<"e","m","a","i","l"," ","S","h","i","v","a","m"," ","m","y"," ","C","a","l","e","n","d","a","r">>, <<"c","a","l","e","n","d","a","r","?">>, <<"s","e","n","d"," ","a","n"," ","E","m","a","i","l">> }
          ELSE IF v = "gemini_real_assistant"
          THEN { <<"m","y"," ","c","a","l","e","n","d","a","r"," ","a","n","d"," ","e","m","a","i","l">>, <<"a"," ","M","e","e","t","i","n","g",","," ","t","h","e","n"," ","e","m","a","i","l"," ","s","h","i","v","a","m">>,
                 <<"e","m","a","i","l"," ","s","h","i","v","a","m">>, <<"s","e","n","d"," ","a"," ","m","e","e","t"," ","l","i","n","k">> }
          ELSE {})

\* datetime.now(timezone.utc).isoformat() when the user record (i = 0) or the
\* model record (i = 1) of turn n is written
turn_time(n, i) == isoformat_now(2 * n + i)

\* the texts the chunks of a session carry, in the order the streams yield them
ChunkTexts == << <<"H","i">>, <<"!","\n">>, <<" ","t","h","e","r","e">> >>

\* what the k-th chunk may be: with a text part, without parts, with a part
\* whose text is None
Chunks(k) ==
    { [parts |-> TRUE, none |-> FALSE, text |-> ChunkTexts[(k % Len(ChunkTexts)) + 1]],
      [parts |-> FALSE, none |-> FALSE, text |-> <<>>],
      [parts |-> TRUE, none |-> TRUE, text |-> <<>>] }

\* the message of the exception a failed model call carries
BackendError == <<"5","0","3"," ","b","a","c","k","e","n","d"," ","u","n","a","v","a","i","l","a","b","l","e">>

Printed(label, text) == [label |-> label, text |-> text]

NotRouted == Routed(FALSE, TRUE, <<>>, <<>>)

\* the command a stripped input is, "" when it is none
command(u) ==
    IF str_lower(u) = <<"/","e","x","i","t">> THEN "exit"
    ELSE IF str_lower(u) = <<"/","r","e","s","e","t">> THEN "reset"
    ELSE ""

\* interactive_chat is entered: chat = start_chat(persist=True)
ChatStart ==
    /\ chat_pc = "start"
    /\ \E s \in {start_chat(variant, file)} :
        /\ chat_pc' = IF s.raised THEN "crashed" ELSE "input"
        /\ chat' = s.history
    /\ UNCHANGED <<user, routed, full_text, chunks, out, turns, before>>
    /\ UNCHANGED <<variant, file, clock, loaded, appended, agent_vars>>

\* input() raises EOFError or KeyboardInterrupt
ChatInterrupt ==
    /\ chat_pc = "input"
    /\ chat_pc' = "exited"
    /\ out' = <<Printed("print", <<"\n","B","y","e","!"," ","U+1F44B">>)>>
    /\ UNCHANGED <<chat, user, routed, full_text, chunks, turns, before>>
    /\ UNCHANGED <<variant, file, clock, loaded, appended, agent_vars>>

\* input() returns: the empty input, /exit, /reset, or the start of a turn
ChatRead ==
    /\ chat_pc = "input"
    /\ \E raw \in RawInputs(variant) :
        \E u \in {str_strip(raw)} :
            /\ user' = u
            /\ before' = file
            /\ routed' = NotRouted
            /\ full_text' = <<>>
            /\ IF u = <<>>
               THEN /\ out' = <<>>
                    /\ chat_pc' = "input"
                    /\ UNCHANGED <<chat, file, turns>>
               ELSE IF command(u) = "exit"
               THEN /\ out' = <<Printed("print", <<"B","y","e","!"," ","U+1F44B">>)>>
                    /\ chat_pc' = "exited"
                    /\ UNCHANGED <<chat, file, turns>>
               ELSE IF command(u) = "reset"
               THEN /\ file' = reset_history(file)
                    /\ chat' = start_chat(variant, reset_history(file)).history
                    /\ out' = <<Printed("print", <<"U+1F9F9"," ","M","e","m","o","r","y"," ","c","l","e","a","r","e","d",".">>)>>
                    /\ chat_pc' = "input"
                    /\ UNCHANGED turns
               ELSE /\ turns < MaxTurns
                    /\ turns' = turns + 1
                    /\ out' = <<>>
                    /\ chat_pc' = IF variant = "gemini_chat" THEN "user" ELSE "tools"
                    /\ UNCHANGED <<chat, file>>
    /\ UNCHANGED <<chunks, variant, clock, loaded, appended, agent_vars>>

\* tool_result = handle_tools(user), and the print of a tool result
ChatTools ==
    /\ chat_pc = "tools"
    /\ \E cal \in CalendarOutcomes :
        \E r \in {handle_tools(variant, user, cal)} :
            /\ routed' = r
            /\ chat_pc' = IF r.raised THEN "crashed"
                          ELSE IF ~r.none /\ r.result # <<>> THEN "tool_user"
                          ELSE "user"
            /\ out' = IF ~r.raised /\ ~r.none /\ r.result # <<>>
                      THEN <<Printed("print", <<"U+1F527"," ","T","o","o","l",":"," ">> \o r.result)>>
                      ELSE out
    /\ UNCHANGED <<chat, user, full_text, chunks, turns, before>>
    /\ UNCHANGED <<variant, file, clock, loaded, appended, agent_vars>>

\* a tool turn that does not write the user record
ChatToolUser_skips ==
    /\ chat_pc = "tool_user"
    /\ chat_pc' = "tool_model"
    /\ UNCHANGED <<chat, user, routed, full_text, chunks, out, turns, before>>
    /\ UNCHANGED <<variant, file, clock, loaded, appended, agent_vars>>

\* append_history("user", user) of the tool path
ChatToolUser ==
    /\ chat_pc = "tool_user"
    /\ file' = append_history(file, <<"u","s","e","r">>, user, turn_time(turns, 0))
    /\ chat_pc' = "tool_model"
    /\ UNCHANGED <<chat, user, routed, full_text, chunks, out, turns, before>>
    /\ UNCHANGED <<variant, clock, loaded, appended, agent_vars>>

\* append_history("model", tool_result), then continue
ChatToolModel ==
    /\ chat_pc = "tool_model"
    /\ file' = append_history(file, <<"m","o","d","e","l">>, routed.result, turn_time(turns, 1))
    /\ chat_pc' = "input"
    /\ UNCHANGED <<chat, user, routed, full_text, chunks, out, turns, before>>
    /\ UNCHANGED <<variant, clock, loaded, appended, agent_vars>>

\* append_history("user", user) before the model is called
ChatUser ==
    /\ chat_pc = "user"
    /\ file' = append_history(file, <<"u","s","e","r">>, user, turn_time(turns, 0))
    /\ chat_pc' = "send"
    /\ UNCHANGED <<chat, user, routed, full_text, chunks, out, turns, before>>
    /\ UNCHANGED <<variant, clock, loaded, appended, agent_vars>>

\* chat.send_message(user, stream=True) returns a stream
ChatSend ==
    /\ chat_pc = "send"
    /\ chat_pc' = "stream"
    /\ full_text' = <<>>
    /\ out' = Append(out, Printed("print", <<"G","e","m","i","n","i",":"," ">>))
    /\ UNCHANGED <<chat, user, routed, chunks, turns, before>>
    /\ UNCHANGED <<variant, file, clock, loaded, appended, agent_vars>>

\* an except clause that also records what was streamed before the failure
ChatError_records ==
    /\ chat_pc \in {"send", "stream"}
    /\ out' = Append(out, Printed("print", <<"\n","[","E","r","r","o","r","]"," ">> \o BackendError))
    /\ file' = append_history(file, <<"m","o","d","e","l">>, full_text, turn_time(turns, 1))
    /\ chat_pc' = "input"
    /\ UNCHANGED <<chat, user, routed, full_text, chunks, turns, before>>
    /\ UNCHANGED <<variant, clock, loaded, appended, agent_vars>>

\* chat.send_message raises, or the stream raises at its next chunk: the
\* except clause prints the error and continues
ChatError ==
    /\ chat_pc \in {"send", "stream"}
    /\ out' = Append(out, Printed("print", <<"\n","[","E","r","r","o","r","]"," ">> \o BackendError))
    /\ chat_pc' = "input"
    /\ UNCHANGED <<chat, user, routed, full_text, chunks, turns, before>>
    /\ UNCHANGED <<variant, file, clock, loaded, appended, agent_vars>>

\* a pass of the for loop that puts the new piece before the text so far
ChatChunk_prepends ==
    /\ chat_pc = "stream"
    /\ chunks < MaxChunks
    /\ \E c \in Chunks(chunks) :
        \E piece \in {IF c.none THEN <<>> ELSE c.text} :
            /\ full_text' = IF c.parts THEN piece \o full_text ELSE full_text
            /\ out' = IF c.parts THEN Append(out, Printed("piece", piece)) ELSE out
    /\ chunks' = chunks + 1
    /\ UNCHANGED <<chat_pc, chat, user, routed, turns, before>>
    /\ UNCHANGED <<variant, file, clock, loaded, appended, agent_vars>>

\* the stream yields a chunk: one pass of the for loop
ChatChunk ==
    /\ chat_pc = "stream"
    /\ chunks < MaxChunks
    /\ \E c \in Chunks(chunks) :
        \E piece \in {IF c.none THEN <<>> ELSE c.text} :
            /\ full_text' = IF c.parts THEN full_text \o piece ELSE full_text
            /\ out' = IF c.parts THEN Append(out, Printed("piece", piece)) ELSE out
    /\ chunks' = chunks + 1
    /\ UNCHANGED <<chat_pc, chat, user, routed, turns, before>>
    /\ UNCHANGED <<variant, file, clock, loaded, appended, agent_vars>>

\* the stream is exhausted: the session records the exchange, print() ends the line
ChatStreamEnd ==
    /\ chat_pc = "stream"
    /\ chat' = chat \o << [role |-> <<"u","s","e","r">>, parts |-> <<user>>],
                          [role |-> <<"m","o","d","e","l">>, parts |-> <<full_text>>] >>
    /\ out' = Append(out, Printed("print", <<>>))
    /\ chat_pc' = "model"
    /\ UNCHANGED <<user, routed, full_text, chunks, turns, before>>
    /\ UNCHANGED <<variant, file, clock, loaded, appended, agent_vars>>

\* append_history("model", full_text)
ChatModel ==
    /\ chat_pc = "model"
    /\ file' = append_history(file, <<"m","o","d","e","l">>, full_text, turn_time(turns, 1))
    /\ chat_pc' = "input"
    /\ UNCHANGED <<chat, user, routed, full_text, chunks, out, turns, before>>
    /\ UNCHANGED <<variant, clock, loaded, appended, agent_vars>>

----------------------------------------------------------------------------
vars == <<agent_vars, store_vars, chat_vars>>

\* interactive_chat has not been entered
ChatIdle ==
    /\ chat_pc = "start"
    /\ chat = <<>>
    /\ user = <<>>
    /\ routed = NotRouted
    /\ full_text = <<>>
    /\ chunks = 0
    /\ out = <<>>
    /\ turns = 0
    /\ before = NoFile

\* the agent of ai_agent.py, with FakeGPT or another object bound to its gpt
AgentInit ==
    /\ gpt_kind \in {"FakeGPT", "Scripted"}
    /\ AgentIdle
    /\ variant = "ai_agent"
    /\ file = NoFile
    /\ StoreIdle
    /\ ChatIdle

AgentNext == AgentCall \/ AgentStep \/ AgentReturn

SpecAgent == AgentInit /\ [][AgentNext]_vars

FairSpecAgent == SpecAgent /\ WF_vars(AgentStep) /\ WF_vars(AgentReturn)

\* the store operations of one of the programs, from the transcript they find
StoreInit ==
    /\ variant \in Variants
    /\ appended \in StoreOrigins
    /\ file = origin_file(appended)
    /\ clock = 0
    /\ loaded = NotLoaded
    /\ gpt_kind = "FakeGPT"
    /\ AgentIdle
    /\ ChatIdle

StoreNext == StoreAppend \/ StoreLoad \/ StoreReset

SpecStore == StoreInit /\ [][StoreNext]_vars

\* a session of one of the programs
ChatInit ==
    /\ variant \in Variants
    /\ file \in InitialFiles
    /\ StoreIdle
    /\ gpt_kind = "FakeGPT"
    /\ AgentIdle
    /\ chat_pc = "start"
    /\ chat = <<>>
    /\ user = <<>>
    /\ routed = NotRouted
    /\ full_text = <<>>
    /\ chunks = 0
    /\ out = <<>>
    /\ turns = 0
    /\ before = file

ChatNext ==
    \/ ChatStart \/ ChatInterrupt \/ ChatRead \/ ChatTools \/ ChatToolUser
    \/ ChatToolModel \/ ChatUser \/ ChatSend \/ ChatError \/ ChatChunk
    \/ ChatStreamEnd \/ ChatModel

SpecChat == ChatInit /\ [][ChatNext]_vars

\* one process runs one of the two loops: AIAgent.run with no session open, or
\* interactive_chat with the agent never called
RunAgent == chat_pc = "start" /\ AgentNext

RunChat == runs = 0 /\ ChatNext

LoopsInit == AgentInit \/ ChatInit

LoopsNext == RunAgent \/ RunChat

SpecLoops == LoopsInit /\ [][LoopsNext]_vars

----------------------------------------------------------------------------
(* Properties of AIAgent.run, stated over the events of the current run *)

\* the positions of trace that hold the events of step n
step_indices(n) == { i \in DOMAIN trace : trace[i].step = n }

printed_at(n, label) ==
    { i \in step_indices(n) : trace[i].kind = "print" /\ trace[i].name = label }

tools_at(n) == { i \in step_indices(n) : trace[i].kind = "tool" }

models_at(n) == { i \in step_indices(n) : trace[i].kind = "model" }

StepRecordKeys ==
    { <<"t","h","o","u","g","h","t">>, <<"p","l","a","n">>, <<"a","c","t","i","o","n">>, <<"o","b","s","e","r","v","a","t","i","o","n">>, <<"f","i","n","a","l","_","a","n","s","w","e","r">> }

\* the parsed response is a step record: a JSON object with the five fields
is_step_record(p) == p.ok /\ \A k \in StepRecordKeys : dict_has(p.val, k)

field_of(text, k) == dict_get(parsed_response[text].val, k)

\* "successfully" occurs in the text in some letter case
has_keyword(text) == str_in(<<"s","u","c","c","e","s","s","f","u","l","l","y">>, str_lower(text))

\* the response is a step record whose final_answer holds the completion keyword
signals_completion(text) ==
    With(parsed_response[text], LAMBDA p :
        is_step_record(p) /\ has_keyword(dict_get(p.val, <<"f","i","n","a","l","_","a","n","s","w","e","r">>)))

\* the response is a step record whose final_answer does not hold the keyword
continues(text) ==
    With(parsed_response[text], LAMBDA p :
        is_step_record(p) /\ ~has_keyword(dict_get(p.val, <<"f","i","n","a","l","_","a","n","s","w","e","r">>)))

\* every response of the current run is a step record without the keyword
C1_NoKeyword ==
    \A i \in DOMAIN trace : trace[i].kind = "model" => continues(trace[i].text)

C1_Safety ==
    C1_NoKeyword =>
        /\ agent_pc # "raised"
        /\ ~done
        /\ step <= MaxSteps
        /\ \A n \in 1..step : Cardinality(models_at(n)) = 1
        /\ agent_pc = "returned" => step = MaxSteps /\ agent_result = "None"

\* C1: when no final_answer of the step records holds the completion keyword,
\* AIAgent.run raises nothing, makes one model call per step, never goes beyond
\* step 5, returns only after step 5, and every run that entered its loop ends.
C1_CeilingStop ==
    /\ []C1_Safety
    /\ (agent_pc = "loop") ~> (agent_pc \in {"returned", "raised"})

C1_Witness ==
    /\ gpt_kind = "Scripted"
    /\ agent_pc = "returned"
    /\ step = MaxSteps
    /\ ~done
    /\ C1_NoKeyword

\* C2: when the response of step k is a step record whose final_answer holds
\* "successfully" in any letter case, that step is the last one of the run: the
\* step counter stays k, done is set, and the trace holds no model call and no
\* tool call of a later step; a fresh agent with FakeGPT returns after 4 steps.
C2_StopsAtFirstSignal ==
    /\ \A i \in DOMAIN trace :
           (trace[i].kind = "model" /\ signals_completion(trace[i].text)) =>
               /\ step = trace[i].step
               /\ done
               /\ agent_pc \in {"loop", "returned"}
               /\ \A j \in DOMAIN trace : trace[j].step <= trace[i].step
    /\ (agent_pc = "returned" /\ done) =>
           \E i \in models_at(step) : signals_completion(trace[i].text)
    /\ (gpt_kind = "FakeGPT" /\ runs = 1 /\ agent_pc = "returned") => step = 4

C2_Witness ==
    /\ gpt_kind = "Scripted"
    /\ agent_pc = "returned"
    /\ step = 3
    /\ \E i \in models_at(3) :
           /\ signals_completion(trace[i].text)
           /\ ~str_in(<<"s","u","c","c","e","s","s","f","u","l","l","y">>, field_of(trace[i].text, <<"f","i","n","a","l","_","a","n","s","w","e","r">>))

\* C3: two runs that end differently, one completed and one at the ceiling,
\* give their caller different results.
C3_OutcomesDistinguishable ==
    \A a, b \in returns : a.outcome # b.outcome => a.value # b.value

RegisteredTools == { <<"C","a","l","e","n","d","a","r","A","P","I",".","c","h","e","c","k","_","a","v","a","i","l","a","b","i","l","i","t","y">>, <<"E","m","a","i","l","A","P","I",".","d","r","a","f","t","_","e","m","a","i","l">> }

ReportLabels == { "Step", "Thought", "Plan", "Action", "Observation", "Final Answer" }

\* the action step n declared, where the step got as far as printing it
declared_actions(n) == { trace[i].text : i \in printed_at(n, "Action") }

\* step n left the ordinary path: it raised, or it printed something that is
\* not one of the lines of an ordinary step
error_path(n) ==
    \/ agent_pc = "raised" /\ step = n
    \/ \E i \in step_indices(n) :
           trace[i].kind = "print" /\ trace[i].name \notin ReportLabels

\* C4: a step whose declared action is neither a registered tool nor "none"
\* invokes no tool and takes an error path.
C4_UnknownActionIsAnError ==
    \A n \in 1..step :
        \A a \in declared_actions(n) :
            a \notin RegisteredTools \cup {<<"n","o","n","e">>} =>
                tools_at(n) = {} /\ error_path(n)

\* the observation the tool calls of step n produce for the action a
tool_observation(n, a) ==
    IF a = <<"C","a","l","e","n","d","a","r","A","P","I",".","c","h","e","c","k","_","a","v","a","i","l","a","b","i","l","i","t","y">>
    THEN { <<"U","s","e","r",":"," ">> \o trace[i].text \o <<" ","|"," ","P","r","i","y","a",":"," ">> \o trace[j].text :
           <<i, j>> \in { p \in tools_at(n) \X tools_at(n) :
               /\ p[1] < p[2]
               /\ tools_at(n) = {p[1], p[2]}
               /\ trace[p[1]].name = "CalendarAPI.check_availability"
               /\ trace[p[2]].name = "CalendarAPI.check_availability"
               /\ trace[p[1]].args = <<<<"u","s","e","r">>>>
               /\ trace[p[2]].args = <<<<"P","r","i","y","a">>>> } }
    ELSE { trace[i].text :
           i \in { k \in tools_at(n) :
               tools_at(n) = {k} /\ trace[k].name = "EmailAPI.draft_email" } }

\* the observation the model supplied in step n
supplied_observation(n) ==
    { field_of(trace[i].text, <<"o","b","s","e","r","v","a","t","i","o","n">>) :
      i \in { k \in models_at(n) : dict_has(parsed_response[trace[k].text].val, <<"o","b","s","e","r","v","a","t","i","o","n">>) } }

\* the observation step n reported
reported_observation(n) == { trace[i].text : i \in printed_at(n, "Observation") }

\* the tool calls of step n come before the lines with these labels
tools_before(n, labels) ==
    \A t \in tools_at(n) :
        \A i \in step_indices(n) :
            (trace[i].kind = "print" /\ trace[i].name \in labels) => t < i

C5_Observation(n, a) ==
    IF a \in RegisteredTools
    THEN /\ tools_at(n) # {}
         /\ reported_observation(n) # {}
         /\ reported_observation(n) = tool_observation(n, a)
    ELSE IF a = <<"n","o","n","e">>
    THEN /\ tools_at(n) = {}
         /\ reported_observation(n) \subseteq supplied_observation(n)
    ELSE TRUE

entered_task == trace[1].text

\* step n called the model once, and with the task the run was entered with
one_call_with_task(n) ==
    \E i \in models_at(n) :
        /\ models_at(n) = {i}
        /\ trace[i].name = "gpt.run"
        /\ trace[i].args = <<entered_task>>

\* C21: in one run the model is called once per step, and the input of every
\* call is the task the run was entered with: no observation and no earlier
\* step record is added to it.
C21_SameTaskEveryStep ==
    agent_pc # "idle" =>
        /\ task = entered_task
        /\ \A i \in DOMAIN trace : trace[i].kind = "model" => trace[i].step \in 1..step
        /\ \A n \in 1..step : one_call_with_task(n)

C21_Witness ==
    /\ agent_pc = "returned"
    /\ step = MaxSteps
    /\ runs = 2
    /\ task = <<"B","o","o","k"," ","a"," ","r","o","o","m",".">>
    /\ tools_at(1) # {}
    /\ \E n \in 2..step : printed_at(n, "Observation") # {}

----------------------------------------------------------------------------
(* Properties of the transcript store *)

\* the history that holds the appended roles and contents, in append order
appended_history ==
    [j \in DOMAIN appended |-> [role |-> appended[j][1], parts |-> <<appended[j][2]>>]]

\* the roles of the records the programs write
TranscriptRoles == { <<"u","s","e","r">>, <<"m","o","d","e","l">> }

\* C6: load_history, called after N append_history calls made on an absent
\* transcript with no reset between them, raises nothing and returns N entries
\* with the appended roles and contents in append order; without a transcript
\* file it returns the empty list.
C6_LoadReturnsAppended ==
    (loaded.valid /\ \A j \in DOMAIN appended : appended[j][1] \in TranscriptRoles) =>
        /\ ~loaded.raised
        /\ Len(loaded.history) = Len(appended)
        /\ loaded.history = appended_history
        /\ ~file.exists => loaded.history = <<>>

C6_Witness ==
    /\ loaded.valid
    /\ Len(appended) = 3
    /\ appended[1] # appended[2]
    /\ appended[2] # appended[3]
    /\ \E j \in DOMAIN appended : Len(appended[j][2]) > 0
    /\ \E j \in DOMAIN appended : Len(appended[j][2]) = 0

\* the line is no record of the transcript format: it does not parse, lacks
\* role or content, or carries a role other than user and model
malformed_record(line) ==
    With(json_loads(line), LAMBDA rec :
        bad_record(rec) \/ dict_get(rec.val, <<"r","o","l","e">>) \notin TranscriptRoles)

has_malformed_record(f) ==
    f.exists /\ \E j \in DOMAIN file_lines(f.text) : malformed_record(file_lines(f.text)[j])

\* C13: load_history, called on a transcript that holds a malformed record,
\* raises instead of returning a history.
C13_MalformedRecordFailsLoad ==
    (loaded.valid /\ has_malformed_record(file)) => loaded.raised

----------------------------------------------------------------------------
(* Properties of interactive_chat *)

\* the entries load_history returns for the file f
persisted(f) == load_history(variant, f).history

\* the loop has just carried out /reset
after_reset == chat_pc = "input" /\ command(user) = "reset"

\* C7: right after /reset the transcript is gone, load_history returns the empty
\* list, and the session the loop goes on with, like the session a later start
\* would open, has the instruction turn as its whole history.
C7_ResetClears ==
    after_reset =>
        /\ ~file.exists
        /\ load_history(variant, file) = [raised |-> FALSE, history |-> <<>>]
        /\ chat = <<instruction_turn(variant)>>
        /\ start_chat(variant, file) =
               [raised |-> FALSE, history |-> <<instruction_turn(variant)>>]

C7_Witness ==
    /\ after_reset
    /\ before.exists
    /\ turns > 0
    /\ Len(load_history(variant, before).history) > 2

\* the report of a failed model call
error_report == Printed("print", <<"\n","[","E","r","r","o","r","]"," ">> \o BackendError)

\* C8: a step in which the model call fails, at send_message or at a chunk of
\* the stream, leaves the transcript with the user turn of the exchange as its
\* last record and no model turn after it, prints the failure, and puts the
\* loop back at its prompt.
C8_FailedCallKeepsUserTurn ==
    [][ChatError =>
          /\ persisted(file') = persisted(before) \o <<[role |-> <<"u","s","e","r">>, parts |-> <<user>>]>>
          /\ out'[Len(out')] = error_report
          /\ chat_pc' = "input"]_vars

C8_Witness ==
    /\ chat_pc = "input"
    /\ out # <<>>
    /\ out[Len(out)] = error_report
    /\ full_text # <<>>
    /\ persisted(file) = persisted(before) \o <<[role |-> <<"u","s","e","r">>, parts |-> <<user>>]>>

\* the input of the current turn has been through handle_tools
tools_ran ==
    /\ variant # "gemini_chat"
    /\ user # <<>>
    /\ command(user) = ""
    /\ chat_pc \notin {"start", "tools"}

\* handle_tools matched a tool for the input: it did not return None
tool_matched == tools_ran /\ ~routed.none

\* the turn is over: the loop is back at its prompt, or has ended
turn_over == chat_pc \in {"input", "exited", "crashed"}

model_called == \E i \in DOMAIN out : out[i] = Printed("print", <<"G","e","m","i","n","i",":"," ">>)

\* C9: a turn in which handle_tools matched a tool does not call the model and
\* ends with two more records in the transcript: the user turn with the input,
\* then a model turn with the text the tool returned.
C9_ToolTurnRecordsTwo ==
    tool_matched =>
        /\ ~model_called
        /\ turn_over =>
               /\ ~load_history(variant, file).raised
               /\ persisted(file) = persisted(before)
                      \o << [role |-> <<"u","s","e","r">>, parts |-> <<user>>],
                            [role |-> <<"m","o","d","e","l">>, parts |-> <<routed.result>>] >>

called(name) == \E i \in DOMAIN routed.calls : routed.calls[i].name = name

succeeded(name) ==
    \E i \in DOMAIN routed.calls :
        routed.calls[i].name = name /\ ~routed.calls[i].raised

mentions(word) == str_in(word, str_lower(user))

\* C10: handle_tools tries calendar first, then (real tools) meeting / meet
\* link, then email, and the first match decides: an input with "calendar" and
\* "email" goes to the calendar tool and no email is sent; with the real tools
\* an input with "meeting" and "email" and without "calendar" creates a
\* meeting and sends no email.
C10_RouterPriority ==
    tools_ran =>
        /\ mentions(<<"c","a","l","e","n","d","a","r">>) =>
               /\ ~called("send_email")
               /\ ~called("create_meeting")
               /\ \A i \in DOMAIN routed.calls : routed.calls[i].name = "check_calendar"
        /\ (variant = "gemini_real_assistant" /\ ~mentions(<<"c","a","l","e","n","d","a","r">>)
                /\ (mentions(<<"m","e","e","t","i","n","g">>) \/ mentions(<<"m","e","e","t"," ","l","i","n","k">>))) =>
               /\ succeeded("create_meeting")
               /\ ~called("send_email")
        /\ (variant = "ai_agent" /\ ~mentions(<<"c","a","l","e","n","d","a","r">>) /\ mentions(<<"e","m","a","i","l">>)) =>
               succeeded("send_email")

\* the input names a tool category whose argument the text does not give: in
\* ai_agent.py a calendar or an email without a name, with the real tools an
\* email without a name
argument_missing ==
    /\ tools_ran
    /\ ~mentions(<<"p","r","i","y","a">>) \/ variant = "gemini_real_assistant"
    /\ ~mentions(<<"s","h","i","v","a","m">>)
    /\ IF variant = "ai_agent"
       THEN mentions(<<"c","a","l","e","n","d","a","r">>) \/ mentions(<<"e","m","a","i","l">>)
       ELSE /\ mentions(<<"e","m","a","i","l">>)
            /\ ~mentions(<<"c","a","l","e","n","d","a","r">>)
            /\ ~mentions(<<"m","e","e","t","i","n","g">>)
            /\ ~mentions(<<"m","e","e","t"," ","l","i","n","k">>)

\* C11: for an input that names a tool category without the argument the tool
\* needs, handle_tools calls no tool and returns a text, the clarification
\* request.
C11_AsksForMissingArgument ==
    argument_missing =>
        /\ routed.calls = <<>>
        /\ ~routed.raised
        /\ ~routed.none
        /\ routed.result # <<>>

\* C12: a tool that raises does not end the interactive loop: the turn ends
\* with the failure printed as its observation and the loop back at its prompt.
C12_ToolFailureIsIsolated ==
    (tools_ran /\ routed.raised) =>
        /\ chat_pc # "crashed"
        /\ turn_over => chat_pc = "input" /\ out # <<>>

\* the loop is back at its prompt after a turn that was answered, by a tool or
\* by the model
completed_turn ==
    /\ chat_pc = "input"
    /\ user # <<>>
    /\ command(user) = ""
    /\ out # <<>>
    /\ out[Len(out)] # error_report

\* C14: after every completed turn the history of the live session is the
\* instruction turn followed by the entries of the persisted transcript.
C14_SessionMirrorsTranscript ==
    completed_turn => chat = <<instruction_turn(variant)>> \o persisted(file)

\* the tool functions called for the input of the current turn
turn_capabilities == { routed.calls[i].name : i \in DOMAIN routed.calls }

\* the tool functions called in step n of the current run
step_capabilities(n) == { trace[i].name : i \in tools_at(n) }

is_prefix(a, b) == Len(a) <= Len(b) /\ SubSeq(b, 1, Len(a)) = a

\* the step carries out /reset
reset_step == chat_pc = "input" /\ command(user') = "reset"

\* C16: a step of the interactive loop that is not a /reset keeps the
\* transcript file and adds to its end at most: the text before the step is
\* the beginning of the text after it.
C16_AppendOnly ==
    [][reset_step \/ (/\ file.exists => file'.exists
                      /\ is_prefix(file.text, file'.text))]_vars

C16_Witness ==
    /\ turns = 2
    /\ chat_pc = "input"
    /\ before.exists
    /\ Len(before.text) > 0
    /\ Len(file.text) > Len(before.text)
    /\ is_prefix(before.text, file.text)

\* neither handle_tools nor the model was called for the last input
no_calls == routed = NotRouted /\ ~model_called

\* the transcript holds, right after the records it held when the input was
\* read, a user record with the input
user_record_appended ==
    /\ ~load_history(variant, file).raised
    /\ Len(persisted(file)) > Len(persisted(before))
    /\ SubSeq(persisted(file), 1, Len(persisted(before)) + 1) =
           persisted(before) \o <<[role |-> <<"u","s","e","r">>, parts |-> <<user>>]>>

\* C17: an empty input, /reset and /exit append nothing and call neither tool
\* nor model, /exit ends the loop, and the turn of any other input ends with a
\* user record of that input appended.
C17_CommandsAndTurns ==
    /\ (chat_pc = "input" /\ user = <<>>) => (file = before /\ no_calls)
    /\ command(user) = "reset" => (~file.exists /\ no_calls)
    /\ command(user) = "exit" => (chat_pc = "exited" /\ file = before /\ no_calls)
    /\ (user # <<>> /\ command(user) = "" /\ turn_over) => user_record_appended

\* what handle_tools selected: no tool at all, or the tool functions called
\* with their arguments
route(r) ==
    [none |-> r.none,
     calls |-> [i \in DOMAIN r.calls |->
                   [name |-> r.calls[i].name, args |-> r.calls[i].args]]]

RECURSIVE pieces_text(_)
pieces_text(o) ==
    IF o = <<>> THEN <<>>
    ELSE (IF Head(o).label = "piece" THEN Head(o).text ELSE <<>>) \o pieces_text(Tail(o))

\* the model call of the turn is under way, or its stream has just ended
model_turn_open == chat_pc \in {"send", "stream", "model"}

\* the model answered the turn and the loop is back at its prompt
model_turn_done ==
    /\ chat_pc = "input"
    /\ user # <<>>
    /\ command(user) = ""
    /\ model_called
    /\ out[Len(out)] = Printed("print", <<>>)

\* C20: while the model call of a turn is under way the transcript ends with
\* the user record of the exchange and holds no model record for it; once the
\* stream is exhausted one model record follows the user record, and its
\* content is the streamed pieces joined in order.
C20_ModelRecordIsWholeAnswer ==
    /\ model_turn_open =>
           persisted(file) = persisted(before) \o <<[role |-> <<"u","s","e","r">>, parts |-> <<user>>]>>
    /\ model_turn_done =>
           persisted(file) = persisted(before)
               \o << [role |-> <<"u","s","e","r">>, parts |-> <<user>>],
                     [role |-> <<"m","o","d","e","l">>, parts |-> <<pieces_text(out)>>] >>

C20_Witness ==
    /\ model_turn_done
    /\ before.exists
    /\ pieces_text(out) = <<"H","i","!","\n">>

\* every entry is a user or a model record, and every model record comes
\* right after a user record
alternates(h) ==
    \A i \in DOMAIN h :
        /\ h[i].role \in TranscriptRoles
        /\ h[i].role = <<"m","o","d","e","l">> => (i > 1 /\ h[i - 1].role = <<"u","s","e","r">>)

\* C22: the transcript the loop starts from and every transcript a step of the
\* loop leaves hold only user and model records, and each model record is
\* immediately preceded by a user record.
C22_ModelFollowsUser ==
    /\ \E h \in {persisted(file)} : alternates(h)
    /\ [][file' # file => \E h \in {persisted(file')} : alternates(h)]_vars

C22_Witness ==
    /\ chat_pc = "input"
    /\ turns = MaxTurns
    /\ before.exists
    /\ With(persisted(file), LAMBDA h :
           /\ Len(h) >= 5
           /\ h[Len(h)].role = <<"m","o","d","e","l">>
           /\ \E i \in 2..Len(h) : h[i].role = <<"u","s","e","r">> /\ h[i - 1].role = <<"u","s","e","r">>)

\* C23: no model record of the persisted transcript has empty content, whatever
\* the tool returned and whatever chunks the stream delivered.
C23_NoEmptyModelRecord ==
    \A i \in DOMAIN persisted(file) :
        persisted(file)[i].role = <<"m","o","d","e","l">> => persisted(file)[i].parts # << <<>> >>

============================================================================
